---- MODULE Spec2Model ----
(***************************************************************************)
(* Model of prix_six_engine.py: the news deduplicator, the normalisation   *)
(* of generation-service responses, and the two-phase pipeline of main().  *)
(*                                                                         *)
(* A text (a title, a response) is a sequence of one-character strings.    *)
(* A similarity ratio and the threshold are pairs <<numerator,             *)
(* denominator>> compared by cross-multiplication.                         *)
(***************************************************************************)
EXTENDS Integers, Sequences, FiniteSets

VARIABLES
    pc,             \* position of the run
    weather,        \* main: weather
    feed_i,         \* fetch_news: index of the feed being read
    stories,        \* fetch_news: stories / deduplicate_stories: its argument
    maxCount,       \* the cap deduplicate_stories reads (MAX_NEWS in main)
    di,             \* deduplicate_stories: index of the outer loop
    unique,         \* deduplicate_stories: unique
    news,           \* main: news (the value deduplicate_stories returned)
    draft,          \* main: draft
    polished,       \* main: polished
    calls,          \* requests sent to the generation service, in order
    output_file,    \* content of OUTPUT_PATH written by this run
    firestore_doc,  \* document written to app-settings/pub-chat by this run
    cancelled,      \* the caller's cancellation signal is raised
    fetched,        \* fetch_news: per feed read, its entries and its failure
    input,          \* dedup study: the original argument
    out1,           \* dedup study: result of the first application
    text,           \* normalisation study: response.text
    once,           \* normalisation study: text normalised once
    twice           \* normalisation study: text normalised twice

vars == <<pc, weather, feed_i, stories, maxCount, di, unique, news, draft,
          polished, calls, output_file, firestore_doc, cancelled, fetched,
          input, out1, text, once, twice>>

---------------------------------------------------------------------------
(* Bounds of the model *)

MaxStories == 3     \* longest argument of the dedup study
MaxCap == 3         \* largest cap of the dedup study
MaxTokens == 4      \* longest response of the normalisation study, in tokens
MaxEntries == 2     \* most entries a feed carries

(* Program constants *)

MAX_NEWS == 10
PerSourceCap == 8
TITLE_SIMILARITY_THRESHOLD == <<6, 10>>

---------------------------------------------------------------------------
(* Characters and whitespace *)

Min(x, y) == IF x < y THEN x ELSE y

\* str.lower(), on the letters the model uses
LowerChar(c) ==
    CASE c = "A" -> "a"
      [] c = "B" -> "b"
      [] c = "C" -> "c"
      [] OTHER -> c

lower(s) == [k \in DOMAIN s |-> LowerChar(s[k])]

IsSpace(c) == c \in {" ", "\n"}

RECURSIVE lstrip(_)
lstrip(s) ==
    IF s # <<>> /\ IsSpace(Head(s)) THEN lstrip(Tail(s)) ELSE s

RECURSIVE rstrip(_)
rstrip(s) ==
    IF s # <<>> /\ IsSpace(s[Len(s)])
    THEN rstrip(SubSeq(s, 1, Len(s) - 1))
    ELSE s

\* str.strip()
strip(s) == rstrip(lstrip(s))

StartsWith(s, p) ==
    Len(s) >= Len(p) /\ SubSeq(s, 1, Len(p)) = p

EndsWith(s, p) ==
    Len(s) >= Len(p) /\ SubSeq(s, Len(s) - Len(p) + 1, Len(s)) = p

Drop(s, n) == SubSeq(s, n + 1, Len(s))

---------------------------------------------------------------------------
(* difflib.SequenceMatcher(None, a, b).ratio(), for texts far below the    *)
(* 200 characters at which the automatic junk heuristic starts.            *)

\* length of the common run of a[i..ahi] and b[j..bhi] starting at i and j
RECURSIVE RunLen(_, _, _, _, _, _)
RunLen(a, i, ahi, b, j, bhi) ==
    IF i > ahi \/ j > bhi THEN 0
    ELSE IF a[i] # b[j] THEN 0
    ELSE 1 + RunLen(a, i + 1, ahi, b, j + 1, bhi)

\* the longest matching block of a[alo..ahi] and b[blo..bhi]: the longest,
\* among those the one starting earliest in a, among those the one starting
\* earliest in b; <<i, j, size>>
find_longest_match(a, alo, ahi, b, blo, bhi) ==
    LET size(i, j) == RunLen(a, i, ahi, b, j, bhi)
        pairs == (alo..ahi) \X (blo..bhi)
        best == CHOOSE k \in 0..(ahi - alo + 1) :
                    /\ k = 0 \/ \E p \in pairs : size(p[1], p[2]) = k
                    /\ \A p \in pairs : size(p[1], p[2]) <= k
        i0 == CHOOSE i \in alo..ahi :
                    /\ \E j \in blo..bhi : size(i, j) = best
                    /\ \A i2 \in alo..(i - 1) :
                           \A j \in blo..bhi : size(i2, j) # best
        j0 == CHOOSE j \in blo..bhi :
                    /\ size(i0, j) = best
                    /\ \A j2 \in blo..(j - 1) : size(i0, j2) # best
    IN  IF best = 0 THEN <<alo, blo, 0>> ELSE <<i0, j0, best>>

\* total size of the matching blocks: the longest block, then the same to
\* its left and to its right
RECURSIVE Matches(_, _, _, _, _, _)
Matches(a, alo, ahi, b, blo, bhi) ==
    IF alo > ahi \/ blo > bhi THEN 0
    ELSE LET m == find_longest_match(a, alo, ahi, b, blo, bhi)
         IN  IF m[3] = 0 THEN 0
             ELSE m[3]
                  + Matches(a, alo, m[1] - 1, b, blo, m[2] - 1)
                  + Matches(a, m[1] + m[3], ahi, b, m[2] + m[3], bhi)

\* 2.0 * matches / length, and 1.0 when both texts are empty
ratio(a, b) ==
    IF Len(a) + Len(b) = 0 THEN <<1, 1>>
    ELSE <<2 * Matches(a, 1, Len(a), b, 1, Len(b)), Len(a) + Len(b)>>

Greater(r, t) == r[1] * t[2] > t[1] * r[2]

SameRatio(r, t) == r[1] * t[2] = t[1] * r[2]

---------------------------------------------------------------------------
(* Values *)

None == <<>>
Some(x) == <<x>>

Story(title, source) == [title |-> title, source |-> source]

\* stories the dedup study draws its argument from: two with an empty title,
\* titles differing in case only, a pair at exactly the threshold
\* ("abc" / "abcdefg": 2*3/10), and a pair whose ratio depends on the order
\* of the arguments ("aba" / "bca": 2/6 and 4/6)
StoryPool ==
    { Story(<<>>, 1),
      Story(<<>>, 2),
      Story(<<"a", "b", "c">>, 1),
      Story(<<"A", "B", "C">>, 2),
      Story(<<"a", "b", "c", "d", "e", "f", "g">>, 1),
      Story(<<"a", "b", "a">>, 1),
      Story(<<"b", "c", "a">>, 2) }

RECURSIVE SeqsUpTo(_, _)
SeqsUpTo(S, n) ==
    IF n = 0 THEN {<<>>}
    ELSE LET shorter == SeqsUpTo(S, n - 1)
         IN  shorter \cup {Append(s, x) : s \in shorter, x \in S}

---------------------------------------------------------------------------
(* deduplicate_stories *)

Similarity(story, kept) == ratio(lower(story.title), lower(kept.title))

\* mutant: the comparison with the threshold is not strict
Dominated_ge(story, kept_list) ==
    \E k \in DOMAIN kept_list :
        ~Greater(TITLE_SIMILARITY_THRESHOLD, Similarity(story, kept_list[k]))

\* mutant: the story is compared with every story seen before it
Dominated_seen(story, kept_list) ==
    \E k \in 1..(di - 1) :
        Greater(Similarity(story, stories[k]), TITLE_SIMILARITY_THRESHOLD)

\* the inner loop: some kept story's ratio exceeds the threshold
Dominated(story, kept_list) ==
    \E k \in DOMAIN kept_list :
        Greater(Similarity(story, kept_list[k]), TITLE_SIMILARITY_THRESHOLD)

\* mutant: the survivor is put in front of the accumulator
Keep_front(kept_list, story) == <<story>> \o kept_list

\* mutant: the survivor is stored with its lowercased title
Keep_lower(kept_list, story) ==
    Append(kept_list, [story EXCEPT !.title = lower(@)])

\* unique.append(story)
Keep(kept_list, story) == Append(kept_list, story)

\* mutant: the loop stops once the accumulator is over the cap
DedupIter_gt(at, ret) ==
    /\ pc = at
    /\ di <= Len(stories)
    /\ LET story == stories[di]
           u == IF Dominated(story, unique) THEN unique
                ELSE Keep(unique, story)
       IN  /\ unique' = u
           /\ IF Len(u) > maxCount
              THEN /\ pc' = ret
                   /\ news' = u
                   /\ di' = di
              ELSE /\ pc' = at
                   /\ news' = news
                   /\ di' = di + 1
    /\ UNCHANGED <<weather, feed_i, stories, maxCount, draft, polished, calls,
                   output_file, firestore_doc, input, out1, text, once, twice,
                   cancelled, fetched>>

\* one iteration of the outer loop, with the break and the return after it
DedupIter(at, ret) ==
    /\ pc = at
    /\ di <= Len(stories)
    /\ LET story == stories[di]
           u == IF Dominated(story, unique) THEN unique
                ELSE Keep(unique, story)
       IN  /\ unique' = u
           /\ IF Len(u) >= maxCount
              THEN /\ pc' = ret
                   /\ news' = u
                   /\ di' = di
              ELSE /\ pc' = at
                   /\ news' = news
                   /\ di' = di + 1
    /\ UNCHANGED <<weather, feed_i, stories, maxCount, draft, polished, calls,
                   output_file, firestore_doc, input, out1, text, once, twice,
                   cancelled, fetched>>

\* the outer loop has no story left: return unique
DedupExhausted(at, ret) ==
    /\ pc = at
    /\ di > Len(stories)
    /\ news' = unique
    /\ pc' = ret
    /\ UNCHANGED <<weather, feed_i, stories, maxCount, di, unique, draft,
                   polished, calls, output_file, firestore_doc, input, out1,
                   text, once, twice,
                   cancelled, fetched>>

deduplicate_stories(at, ret) ==
    \/ DedupIter(at, ret)
    \/ DedupExhausted(at, ret)

---------------------------------------------------------------------------
(* Study of deduplicate_stories as a function: it is applied to an         *)
(* argument drawn from StoryPool under a cap drawn from 0..MaxCap, then    *)
(* applied again to its own result.                                        *)

InitDedup ==
    /\ pc = "pass1"
    /\ stories \in SeqsUpTo(StoryPool, MaxStories)
    /\ input = stories
    /\ maxCount \in 0..MaxCap
    /\ di = 1
    /\ unique = <<>>
    /\ news = <<>>
    /\ out1 = <<>>
    /\ weather = None
    /\ feed_i = 1
    /\ draft = None
    /\ polished = None
    /\ calls = <<>>
    /\ output_file = None
    /\ firestore_doc = None
    /\ cancelled = FALSE
    /\ fetched = <<>>
    /\ text = <<>>
    /\ once = <<>>
    /\ twice = <<>>

\* deduplicate_stories(deduplicate_stories(stories)): the second call
Reapply ==
    /\ pc = "between"
    /\ out1' = news
    /\ stories' = news
    /\ unique' = <<>>
    /\ di' = 1
    /\ pc' = "pass2"
    /\ UNCHANGED <<weather, feed_i, maxCount, news, draft, polished, calls,
                   output_file, firestore_doc, input, text, once, twice,
                   cancelled, fetched>>

NextDedup ==
    \/ deduplicate_stories("pass1", "between")
    \/ Reapply
    \/ deduplicate_stories("pass2", "end")

SpecDedup == InitDedup /\ [][NextDedup]_vars

---------------------------------------------------------------------------
(* call_llm: the normalisation of response.text *)

\* the backquote character
Backquote == "BQ"

Fence == <<Backquote, Backquote, Backquote>>

HtmlTag == <<"h", "t", "m", "l">>

\* the first re.sub of call_llm (line 201): a fence at the very start goes,
\* with the html tag after it if there is one and all whitespace after that
strip_leading_fence(s) ==
    IF StartsWith(s, Fence)
    THEN LET r == Drop(s, Len(Fence))
             r2 == IF StartsWith(r, HtmlTag) THEN Drop(r, Len(HtmlTag))
                   ELSE r
         IN  lstrip(r2)
    ELSE s

\* the second re.sub of call_llm (line 202): a fence followed by nothing but whitespace
\* up to the end goes, with that whitespace and with the newline right
\* before the fence if there is one
strip_trailing_fence(s) ==
    LET e == rstrip(s)
    IN  IF EndsWith(e, Fence)
        THEN LET p == Len(e) - Len(Fence) + 1
                 start == IF p > 1 /\ s[p - 1] = "\n" THEN p - 1 ELSE p
             IN  SubSeq(s, 1, start - 1)
        ELSE s

\* lines 199-203 of call_llm
Normalize(t) ==
    strip(strip_trailing_fence(strip_leading_fence(strip(t))))

---------------------------------------------------------------------------
(* Study of the normalisation as a function: it is applied to a response   *)
(* text made of at most MaxTokens tokens, then applied to its own result.  *)

Tokens == {Fence, HtmlTag, <<" ">>, <<"\n">>, <<"x">>}

RECURSIVE TextsUpTo(_)
TextsUpTo(n) ==
    IF n = 0 THEN {<<>>}
    ELSE LET shorter == TextsUpTo(n - 1)
         IN  shorter \cup {t \o k : t \in shorter, k \in Tokens}

InitNorm ==
    /\ pc = "norm0"
    /\ text \in TextsUpTo(MaxTokens)
    /\ once = <<>>
    /\ twice = <<>>
    /\ stories = <<>>
    /\ input = <<>>
    /\ maxCount = MAX_NEWS
    /\ di = 1
    /\ unique = <<>>
    /\ news = <<>>
    /\ out1 = <<>>
    /\ weather = None
    /\ feed_i = 1
    /\ draft = None
    /\ polished = None
    /\ calls = <<>>
    /\ output_file = None
    /\ firestore_doc = None
    /\ cancelled = FALSE
    /\ fetched = <<>>

NormalizeOnce ==
    /\ pc = "norm0"
    /\ once' = Normalize(text)
    /\ pc' = "norm1"
    /\ UNCHANGED <<weather, feed_i, stories, maxCount, di, unique, news,
                   draft, polished, calls, output_file, firestore_doc, input,
                   out1, text, twice,
                   cancelled, fetched>>

NormalizeTwice ==
    /\ pc = "norm1"
    /\ twice' = Normalize(once)
    /\ pc' = "norm2"
    /\ UNCHANGED <<weather, feed_i, stories, maxCount, di, unique, news,
                   draft, polished, calls, output_file, firestore_doc, input,
                   out1, text, once,
                   cancelled, fetched>>

NextNorm ==
    \/ NormalizeOnce
    \/ NormalizeTwice

SpecNorm == InitNorm /\ [][NextNorm]_vars

---------------------------------------------------------------------------
(* main: one run of the pipeline *)

\* the feeds read, in order (two of the six of the program)
RSS_FEEDS == <<"planetf1", "bbc">>

\* titles a feed entry may carry
EntryTitles == {<<"a", "b", "c">>, <<"A", "B", "C">>, <<"x">>}

\* texts the generation service may answer with: plain, fenced with the
\* html tag, another text fenced with surrounding whitespace
Responses ==
    { <<"x">>,
      Fence \o HtmlTag \o <<"\n", "x", "\n">> \o Fence,
      <<" ">> \o Fence \o <<"\n", "y">> \o Fence \o <<" ">> }

Init ==
    /\ pc = "fetch_weather"
    /\ weather = None
    /\ feed_i = 1
    /\ stories = <<>>
    /\ maxCount = MAX_NEWS
    /\ di = 1
    /\ unique = <<>>
    /\ news = <<>>
    /\ draft = None
    /\ polished = None
    /\ calls = <<>>
    /\ output_file = None
    /\ firestore_doc = None
    /\ cancelled = FALSE
    /\ fetched = <<>>
    /\ input = <<>>
    /\ out1 = <<>>
    /\ text = <<>>
    /\ once = <<>>
    /\ twice = <<>>

\* mutant: the exception of the request leaves fetch_weather
fetch_weather_raise ==
    /\ pc = "fetch_weather"
    /\ \E ok \in BOOLEAN :
           IF ok
           THEN /\ weather' = Some([location |-> "Silverstone",
                                    error |-> None,
                                    days |-> <<"d1", "d2", "d3">>])
                /\ pc' = "fetch_news"
           ELSE /\ weather' = weather
                /\ pc' = "failed"
    /\ UNCHANGED <<feed_i, stories, maxCount, di, unique, news, draft,
                   polished, calls, output_file, firestore_doc, input, out1,
                   text, once, twice, cancelled, fetched>>

\* fetch_weather: the forecast, or the payload with the error and no day
fetch_weather ==
    /\ pc = "fetch_weather"
    /\ \E ok \in BOOLEAN :
           weather' = Some(IF ok
                           THEN [location |-> "Silverstone", error |-> None,
                                 days |-> <<"d1", "d2", "d3">>]
                           ELSE [location |-> "Silverstone",
                                 error |-> Some("exc"), days |-> <<>>])
    /\ pc' = "fetch_news"
    /\ UNCHANGED <<feed_i, stories, maxCount, di, unique, news, draft,
                   polished, calls, output_file, firestore_doc, input, out1,
                   text, once, twice,
                   cancelled, fetched>>

\* the stories of the first n entries of a feed
FeedStories(entries, n) ==
    [k \in 1..n |-> Story(entries[k], feed_i)]

\* a feed of one entry more than the cap per source
LongFeed ==
    [k \in 1..(PerSourceCap + 1) |->
        IF k % 2 = 1 THEN <<"x">> ELSE <<"a", "b", "c">>]

\* the entries feedparser.parse may deliver for a feed
FeedContents == SeqsUpTo(EntryTitles, MaxEntries) \cup {LongFeed}

\* mutant: every entry of the feed is taken
ReadFeed_nocap ==
    /\ pc = "fetch_news"
    /\ feed_i <= Len(RSS_FEEDS)
    /\ \E entries \in FeedContents :
           /\ stories' = stories \o FeedStories(entries, Len(entries))
           /\ fetched' = Append(fetched,
                                [entries |-> entries, failed |-> FALSE])
    /\ feed_i' = feed_i + 1
    /\ UNCHANGED <<pc, weather, maxCount, di, unique, news, draft, polished,
                   calls, output_file, firestore_doc, input, out1, text, once,
                   twice, cancelled>>

\* fetch_news, one feed read to the end of feed.entries[:8]
ReadFeed ==
    /\ pc = "fetch_news"
    /\ feed_i <= Len(RSS_FEEDS)
    /\ \E entries \in FeedContents :
           /\ stories' = stories
                  \o FeedStories(entries, Min(Len(entries), PerSourceCap))
           /\ fetched' = Append(fetched,
                                [entries |-> entries, failed |-> FALSE])
    /\ feed_i' = feed_i + 1
    /\ UNCHANGED <<pc, weather, maxCount, di, unique, news, draft, polished,
                   calls, output_file, firestore_doc, input, out1, text, once,
                   twice, cancelled>>

\* fetch_news, one feed whose reading raises: in feedparser.parse, or at an
\* entry after n entries were appended; the except clause goes to the next
\* feed
ReadFeedRaises ==
    /\ pc = "fetch_news"
    /\ feed_i <= Len(RSS_FEEDS)
    /\ \E entries \in FeedContents :
           \E n \in 0..Min(Len(entries), PerSourceCap) :
               /\ n = 0 \/ n < Min(Len(entries), PerSourceCap)
               /\ stories' = stories \o FeedStories(entries, n)
               /\ fetched' = Append(fetched,
                      [entries |-> SubSeq(entries, 1, n), failed |-> TRUE])
    /\ feed_i' = feed_i + 1
    /\ UNCHANGED <<pc, weather, maxCount, di, unique, news, draft, polished,
                   calls, output_file, firestore_doc, input, out1, text, once,
                   twice, cancelled>>

\* fetch_news returns; main calls deduplicate_stories(raw_news)
FetchNewsReturns ==
    /\ pc = "fetch_news"
    /\ feed_i > Len(RSS_FEEDS)
    /\ pc' = "dedup"
    /\ di' = 1
    /\ unique' = <<>>
    /\ UNCHANGED <<weather, feed_i, stories, maxCount, news, draft, polished,
                   calls, output_file, firestore_doc, input, out1, text, once,
                   twice,
                   cancelled, fetched>>

\* the request call_llm sends, and what became of it
Call(phase, user_content, ok, response) ==
    [phase |-> phase, user_content |-> user_content, ok |-> ok,
     response |-> response]

\* mutant: the draft is the response as the service sent it
PhaseAReturns_raw ==
    /\ pc = "phase_a"
    /\ \E resp \in Responses :
           /\ calls' = Append(calls,
                  Call("A", [news |-> news, weather |-> weather[1]], TRUE,
                       Some(resp)))
           /\ draft' = Some(resp)
    /\ pc' = "phase_b"
    /\ UNCHANGED <<weather, feed_i, stories, maxCount, di, unique, news,
                   polished, output_file, firestore_doc, input, out1, text,
                   once, twice,
                   cancelled, fetched>>

\* phase_a_draft: call_llm answers
PhaseAReturns ==
    /\ pc = "phase_a"
    /\ \E resp \in Responses :
           /\ calls' = Append(calls,
                  Call("A", [news |-> news, weather |-> weather[1]], TRUE,
                       Some(resp)))
           /\ draft' = Some(Normalize(resp))
    /\ pc' = "phase_b"
    /\ UNCHANGED <<weather, feed_i, stories, maxCount, di, unique, news,
                   polished, output_file, firestore_doc, input, out1, text,
                   once, twice,
                   cancelled, fetched>>

\* mutant: the run goes on with an empty draft
PhaseARaises_continue ==
    /\ pc = "phase_a"
    /\ calls' = Append(calls,
           Call("A", [news |-> news, weather |-> weather[1]], FALSE, None))
    /\ draft' = Some(<<>>)
    /\ pc' = "phase_b"
    /\ UNCHANGED <<weather, feed_i, stories, maxCount, di, unique, news,
                   polished, output_file, firestore_doc, input, out1, text,
                   once, twice,
                   cancelled, fetched>>

\* phase_a_draft: call_llm raises, and nothing in main catches it
PhaseARaises ==
    /\ pc = "phase_a"
    /\ calls' = Append(calls,
           Call("A", [news |-> news, weather |-> weather[1]], FALSE, None))
    /\ pc' = "failed"
    /\ UNCHANGED <<weather, feed_i, stories, maxCount, di, unique, news,
                   draft, polished, output_file, firestore_doc, input, out1,
                   text, once, twice,
                   cancelled, fetched>>

\* phase_b_edit: call_llm answers
PhaseBReturns ==
    /\ pc = "phase_b"
    /\ \E resp \in Responses :
           /\ calls' = Append(calls,
                  Call("B", [draft |-> draft[1]], TRUE, Some(resp)))
           /\ polished' = Some(Normalize(resp))
    /\ pc' = "write_file"
    /\ UNCHANGED <<weather, feed_i, stories, maxCount, di, unique, news,
                   draft, output_file, firestore_doc, input, out1, text, once,
                   twice,
                   cancelled, fetched>>

\* mutant: the draft stands in for the text the edit did not produce
PhaseBRaises_fallback ==
    /\ pc = "phase_b"
    /\ calls' = Append(calls, Call("B", [draft |-> draft[1]], FALSE, None))
    /\ polished' = draft
    /\ pc' = "write_file"
    /\ UNCHANGED <<weather, feed_i, stories, maxCount, di, unique, news,
                   draft, output_file, firestore_doc, input, out1, text, once,
                   twice,
                   cancelled, fetched>>

\* mutant: the failed request is sent again
PhaseBRaises_retry ==
    /\ pc = "phase_b"
    /\ calls' = Append(calls, Call("B", [draft |-> draft[1]], FALSE, None))
    /\ pc' = "phase_b"
    /\ UNCHANGED <<weather, feed_i, stories, maxCount, di, unique, news,
                   draft, polished, output_file, firestore_doc, input, out1,
                   text, once, twice,
                   cancelled, fetched>>

\* phase_b_edit: call_llm raises, and nothing in main catches it
PhaseBRaises ==
    /\ pc = "phase_b"
    /\ calls' = Append(calls, Call("B", [draft |-> draft[1]], FALSE, None))
    /\ pc' = "failed"
    /\ UNCHANGED <<weather, feed_i, stories, maxCount, di, unique, news,
                   draft, polished, output_file, firestore_doc, input, out1,
                   text, once, twice,
                   cancelled, fetched>>

\* the document build_html wraps the body in
build_html(body_html) ==
    [doctype |-> "html", body |-> body_html, footer |-> "VOTING_FOOTER"]

\* mutant: the page is built from the draft
WriteFile_draft ==
    /\ pc = "write_file"
    /\ output_file' = Some(build_html(draft[1]))
    /\ pc' = "firestore"
    /\ UNCHANGED <<weather, feed_i, stories, maxCount, di, unique, news,
                   draft, polished, calls, firestore_doc, input, out1, text,
                   once, twice, cancelled, fetched>>

\* build_html(polished) is written to OUTPUT_PATH
WriteFile ==
    /\ pc = "write_file"
    /\ output_file' = Some(build_html(polished[1]))
    /\ pc' = "firestore"
    /\ UNCHANGED <<weather, feed_i, stories, maxCount, di, unique, news,
                   draft, polished, calls, firestore_doc, input, out1, text,
                   once, twice,
                   cancelled, fetched>>

\* open(OUTPUT_PATH, "w") raises, and nothing in main catches it
WriteFileRaises ==
    /\ pc = "write_file"
    /\ pc' = "failed"
    /\ UNCHANGED <<weather, feed_i, stories, maxCount, di, unique, news,
                   draft, polished, calls, output_file, firestore_doc, input,
                   out1, text, once, twice,
                   cancelled, fetched>>

\* write_to_firestore: the document is set
WriteFirestore ==
    /\ pc = "firestore"
    /\ firestore_doc' = Some([content |-> polished[1],
                              updatedBy |-> "prix_six_engine"])
    /\ pc' = "done"
    /\ UNCHANGED <<weather, feed_i, stories, maxCount, di, unique, news,
                   draft, polished, calls, output_file, input, out1, text,
                   once, twice,
                   cancelled, fetched>>

\* mutant: the exception of the write leaves write_to_firestore
WriteFirestoreFails_raise ==
    /\ pc = "firestore"
    /\ pc' = "failed"
    /\ UNCHANGED <<weather, feed_i, stories, maxCount, di, unique, news,
                   draft, polished, calls, output_file, firestore_doc, input,
                   out1, text, once, twice,
                   cancelled, fetched>>

\* write_to_firestore: the write raises; the except clause prints and returns
WriteFirestoreFails ==
    /\ pc = "firestore"
    /\ pc' = "done"
    /\ UNCHANGED <<weather, feed_i, stories, maxCount, di, unique, news,
                   draft, polished, calls, output_file, firestore_doc, input,
                   out1, text, once, twice,
                   cancelled, fetched>>

\* the caller raises the cancellation signal while a generation call is
\* about to be made or pending; nothing in the program reads the signal
Cancel ==
    /\ pc \in {"phase_a", "phase_b"}
    /\ ~cancelled
    /\ cancelled' = TRUE
    /\ UNCHANGED <<pc, weather, feed_i, stories, maxCount, di, unique, news,
                   draft, polished, calls, output_file, firestore_doc,
                   fetched, input, out1, text, once, twice>>

Next ==
    \/ fetch_weather
    \/ ReadFeed
    \/ ReadFeedRaises
    \/ FetchNewsReturns
    \/ deduplicate_stories("dedup", "phase_a")
    \/ PhaseAReturns
    \/ PhaseARaises
    \/ PhaseBReturns
    \/ PhaseBRaises
    \/ WriteFile
    \/ WriteFileRaises
    \/ WriteFirestore
    \/ WriteFirestoreFails
    \/ Cancel

Spec == Init /\ [][Next]_vars

\* the steps main takes by itself; the answer or the error of a generation
\* call (PhaseAReturns, PhaseARaises, PhaseBReturns, PhaseBRaises) is the
\* service's step: generate_content is called without a timeout
ProgramStep ==
    \/ fetch_weather
    \/ ReadFeed
    \/ ReadFeedRaises
    \/ FetchNewsReturns
    \/ deduplicate_stories("dedup", "phase_a")
    \/ WriteFile
    \/ WriteFileRaises
    \/ WriteFirestore
    \/ WriteFirestoreFails

SpecLive == Init /\ [][Next]_vars /\ WF_vars(ProgramStep)

---------------------------------------------------------------------------
(* Properties of deduplicate_stories, checked under SpecDedup *)

Returned == pc \in {"between", "end"}

EmptyTitled(list) == {k \in DOMAIN list : list[k].title = <<>>}

RECURSIVE IsSubsequence(_, _)
IsSubsequence(s, t) ==
    IF s = <<>> THEN TRUE
    ELSE IF t = <<>> THEN FALSE
    ELSE IF Head(s) = Head(t) THEN IsSubsequence(Tail(s), Tail(t))
    ELSE IsSubsequence(s, Tail(t))

\* C4: whatever the argument and the cap maxCount >= 0 (0 included), the
\* deduplicator returns at most maxCount stories.
DedupCap == Returned => Len(news) <= maxCount

\* C5: no two distinct stories of the accumulator, after any iteration, have
\* a title similarity strictly above the threshold.
DuplicateFree ==
    \A i, j \in DOMAIN unique :
        i # j => ~Greater(Similarity(unique[i], unique[j]),
                          TITLE_SIMILARITY_THRESHOLD)

\* C6: two stories with an empty title are never duplicates of each other:
\* when the argument holds two of them and the cap is not reached, the
\* result holds two as well.
EmptyTitlesKept ==
    (pc = "between" /\ Len(news) < maxCount
        /\ Cardinality(EmptyTitled(input)) >= 2)
    => Cardinality(EmptyTitled(news)) >= 2

\* C8: the deduplicator applied to its own result, under the same cap and
\* threshold, returns that result unchanged.
DedupIdempotent == pc = "end" => news = out1

DedupIdempotentWitness ==
    pc = "end" /\ Len(out1) >= 2 /\ Len(out1) < Len(input)

\* C9: the accumulator and the returned list are subsequences of the
\* argument: every story kept is a story of the argument, in the argument's
\* order.
OrderPreserved ==
    /\ IsSubsequence(unique, input)
    /\ Returned => IsSubsequence(news, input)

OrderPreservedWitness ==
    /\ pc = "between"
    /\ Len(news) >= 2
    /\ Len(news) < Len(input)
    /\ \E k \in DOMAIN news : news[k].title # lower(news[k].title)

\* C10: an iteration whose candidate is at most at the threshold from every
\* kept story, and exactly at it from one, appends the candidate; an
\* iteration whose candidate is strictly above the threshold from some kept
\* story leaves the accumulator as it is.
ThresholdBoundary ==
    [][ (pc \in {"pass1", "pass2"} /\ di <= Len(stories)) =>
          LET story == stories[di]
              rs == {Similarity(story, unique[k]) : k \in DOMAIN unique}
              above == \E r \in rs : Greater(r, TITLE_SIMILARITY_THRESHOLD)
              exact == \E r \in rs : SameRatio(r, TITLE_SIMILARITY_THRESHOLD)
          IN  /\ (exact /\ ~above) => unique' = Append(unique, story)
              /\ above => unique' = unique
      ]_vars

ThresholdBoundaryWitness ==
    /\ pc = "between"
    /\ Len(news) < Len(input)
    /\ Len(news) < maxCount
    /\ \E i, j \in DOMAIN news :
           /\ i < j
           /\ SameRatio(Similarity(news[j], news[i]),
                        TITLE_SIMILARITY_THRESHOLD)

---------------------------------------------------------------------------
(* Properties of the normalisation, checked under SpecNorm *)

\* C7: normalising a normalised response changes nothing:
\* normalize(normalize(t)) = normalize(t), also for a response that carries
\* more than one leading or trailing fence.
NormalizeIdempotent == pc = "norm2" => twice = once

---------------------------------------------------------------------------
(* Properties of a run of main, checked under Spec *)

CallFailed(phase) ==
    \E k \in DOMAIN calls : calls[k].phase = phase /\ ~calls[k].ok

Called(phase) == \E k \in DOMAIN calls : calls[k].phase = phase

\* C1: once the Phase B call has failed the run is failed, there is no final
\* text, and neither the output file nor the Firestore document is written,
\* so the draft reaches neither.
FailClosed ==
    CallFailed("B") =>
        /\ pc = "failed"
        /\ polished = None
        /\ output_file = None
        /\ firestore_doc = None

FailClosedWitness ==
    /\ CallFailed("B")
    /\ draft # None
    /\ draft[1] # <<>>

\* C2: every Phase B request comes right after a Phase A request of the run
\* that was answered, and the draft it carries is the normalised text of
\* that answer.
RunOrdering ==
    \A k \in DOMAIN calls :
        calls[k].phase = "B" =>
            /\ k > 1
            /\ calls[k - 1].phase = "A"
            /\ calls[k - 1].ok
            /\ calls[k].user_content =
                   [draft |-> Normalize(calls[k - 1].response[1])]

RunOrderingWitness ==
    \E k \in DOMAIN calls :
        /\ calls[k].phase = "B"
        /\ k > 1
        /\ calls[k - 1].response # None
        /\ calls[k].user_content.draft # calls[k - 1].response[1]

\* C3: once the Phase A call has failed the run is failed, Phase B is never
\* called, and neither the output file nor the Firestore document is
\* written.
DraftFailureAborts ==
    CallFailed("A") =>
        /\ pc = "failed"
        /\ ~Called("B")
        /\ draft = None
        /\ polished = None
        /\ output_file = None
        /\ firestore_doc = None

DraftFailureAbortsWitness ==
    /\ CallFailed("A")
    /\ news # <<>>

CallsOf(phase) == {k \in DOMAIN calls : calls[k].phase = phase}

\* C11: a run sends at most one Phase A request and at most one Phase B
\* request, two in all, and a request that failed is the last one of the
\* run: it is never sent again.
NoRetry ==
    /\ Cardinality(CallsOf("A")) <= 1
    /\ Cardinality(CallsOf("B")) <= 1
    /\ Len(calls) <= 2
    /\ \A k \in DOMAIN calls : ~calls[k].ok => k = Len(calls)

NoRetryWitness ==
    /\ Len(calls) = 2
    /\ ~calls[2].ok
    /\ pc = "failed"

\* C12: a Firestore write that fails ends the run as done, not as failed,
\* and changes nothing; the write is attempted only once the output file
\* holds the document built from the final text.
PersistenceNonFatal ==
    [][ pc = "firestore" =>
          /\ output_file = Some(build_html(polished[1]))
          /\ pc' = "done"
          /\ output_file' = output_file
      ]_vars

PersistenceNonFatalWitness ==
    /\ pc = "done"
    /\ firestore_doc = None
    /\ output_file # None
    /\ Len(calls) = 2

\* C13: the run checks the cancellation signal before each generation
\* call, so when the signal is raised during Phase A the run does not go on
\* to Phase B with the draft.
CancellationHonoured ==
    [][ (cancelled /\ pc = "phase_a") => pc' # "phase_b" ]_vars

\* C14: every run eventually reaches done or failed, even when the generation
\* service never answers (checked under SpecLive).
RunTerminates == <>(pc \in {"done", "failed"})

\* C15: a failed weather fetch raises nothing: no run fails before its
\* Phase A request, the payload of a failed fetch carries the error and an
\* empty list of days, and the Phase A request carries the payload as
\* fetched, the error included.
ContextFailureNonFatal ==
    /\ pc = "failed" => Called("A")
    /\ (weather # None /\ weather[1].error # None) => weather[1].days = <<>>
    /\ \A k \in CallsOf("A") : calls[k].user_content.weather = weather[1]

ContextFailureNonFatalWitness ==
    \E k \in CallsOf("A") :
        /\ calls[k].user_content.weather.error # None
        /\ calls[k].user_content.weather.days = <<>>

\* the items of the raw list that came from the k-th feed
ItemsOf(k) == SelectSeq(stories, LAMBDA s : s.source = k)

\* C16: when the reading of a feed fails, at any entry, the list fetch_news
\* builds holds none of that feed's items, and it holds every item (up to
\* the cap per source) of each feed that did not fail.
SourceFailureOmitted ==
    \A k \in DOMAIN fetched :
        IF fetched[k].failed
        THEN ItemsOf(k) = <<>>
        ELSE LET e == fetched[k].entries
             IN  ItemsOf(k) = [j \in 1..Min(Len(e), PerSourceCap) |->
                                   Story(e[j], k)]

\* C17: the page written to the output file is built from the normalised
\* response of the run's Phase B request, the document written to the store
\* holds the same text as the page, and the draft is sent with the Phase B
\* request only.
OnlyFinalCrosses ==
    /\ output_file # None =>
           \E k \in CallsOf("B") :
               /\ calls[k].ok
               /\ output_file[1] = build_html(Normalize(calls[k].response[1]))
    /\ firestore_doc # None =>
           /\ output_file # None
           /\ firestore_doc[1].content = output_file[1].body
    /\ \A k \in DOMAIN calls :
           "draft" \in DOMAIN calls[k].user_content => calls[k].phase = "B"

OnlyFinalCrossesWitness ==
    /\ pc = "done"
    /\ firestore_doc # None
    /\ output_file # None
    /\ draft # polished
    /\ firestore_doc[1].content = polished[1]

\* the loop of deduplicate_stories without its break, run over list from
\* position k with accumulator acc
RECURSIVE GreedyFrom(_, _, _)
GreedyFrom(list, k, acc) ==
    IF k > Len(list)
    THEN acc
    ELSE GreedyFrom(list, k + 1,
             IF \E j \in DOMAIN acc :
                    Greater(Similarity(list[k], acc[j]),
                            TITLE_SIMILARITY_THRESHOLD)
             THEN acc
             ELSE Append(acc, list[k]))

\* C18: under a cap of 1 or more the result is the first min(maxCount, k)
\* items of the uncapped result of length k; when the cap is reached the
\* loop stands at the item that filled the accumulator, the result's last,
\* and the result is that of the input up to this item alone; the first
\* item of a non-empty input is the first item of the result.
EarlyStop ==
    (pc = "between" /\ maxCount >= 1) =>
        LET g == GreedyFrom(input, 1, <<>>)
        IN  /\ news = SubSeq(g, 1, Min(maxCount, Len(g)))
            /\ input # <<>> => (news # <<>> /\ news[1] = input[1])
            /\ Len(g) >= maxCount =>
                   /\ di \in DOMAIN input
                   /\ news[Len(news)] = input[di]
                   /\ news = GreedyFrom(SubSeq(input, 1, di), 1, <<>>)
            /\ Len(g) < maxCount => di = Len(input) + 1

EarlyStopWitness ==
    /\ pc = "between"
    /\ maxCount >= 1
    /\ Len(GreedyFrom(input, 1, <<>>)) > maxCount
    /\ di < Len(input)
    /\ Len(news) = maxCount

\* the stories of a list, as a set
Range(list) == {list[k] : k \in DOMAIN list}

\* C19: an iteration drops its candidate exactly when the candidate's
\* similarity to some story of the accumulator exceeds the threshold, and
\* appends it otherwise; the stories dropped earlier play no part.
SurvivorsOnly ==
    [][ (pc = "pass1" /\ di <= Len(stories)) =>
            unique' =
                IF \E j \in DOMAIN unique :
                       Greater(Similarity(stories[di], unique[j]),
                               TITLE_SIMILARITY_THRESHOLD)
                THEN unique
                ELSE Append(unique, stories[di]) ]_vars

\* a story is kept although a story dropped before it is above the
\* threshold for it
SurvivorsOnlyWitness ==
    /\ pc = "between"
    /\ \E b \in DOMAIN input :
           /\ input[b] \in Range(news)
           /\ \E a \in 1..(b - 1) :
                  /\ input[a] \notin Range(news)
                  /\ Greater(Similarity(input[b], input[a]),
                             TITLE_SIMILARITY_THRESHOLD)

\* C20: fetch_news takes at most 8 items of a feed, and its list is the
\* feeds' items in the order of RSS_FEEDS, each feed's items in the order of
\* its entries; the first story of a non-empty curated list is therefore the
\* first story of the raw list.
PerSourceCapAndOrder ==
    /\ \A k \in DOMAIN fetched :
           /\ Len(ItemsOf(k)) <= PerSourceCap
           /\ Len(ItemsOf(k)) <= Len(fetched[k].entries)
           /\ \A j \in DOMAIN ItemsOf(k) :
                  ItemsOf(k)[j] = Story(fetched[k].entries[j], k)
    /\ \A i \in DOMAIN stories :
           /\ stories[i].source \in DOMAIN fetched
           /\ \A j \in DOMAIN stories :
                  i < j => stories[i].source <= stories[j].source
    /\ news # <<>> => news[1] = stories[1]

PerSourceCapAndOrderWitness ==
    /\ pc = "phase_a"
    /\ Len(fetched) = Len(RSS_FEEDS)
    /\ Len(fetched[1].entries) > PerSourceCap
    /\ Len(ItemsOf(1)) = PerSourceCap
    /\ ItemsOf(2) # <<>>
    /\ news # <<>>

====
